---- MODULE Spec2Model ----
(***************************************************************************)
(* Governance transaction commands of x/gov/client/cli/tx.go:              *)
(* submit-proposal, deposit, vote and unjail.  Each command is a linear    *)
(* sequence of steps (argument parsing, one account query, message         *)
(* construction and validation, fee-payer defaulting, broadcast); the      *)
(* variable pc holds the step the running command executes next.           *)
(*                                                                         *)
(* Strings the commands inspect are sequences of one-character strings;    *)
(* a multi-character element of a text is a literal piece of a format      *)
(* string.  Strings the commands only pass on are plain strings.           *)
(***************************************************************************)
EXTENDS Integers, Sequences, FiniteSets, TLC

VARIABLES
    pc,        \* next step of the running command, "idle" before, "done" after
    cmd,       \* the command that was invoked
    args,      \* positional arguments (cobra args)
    flagv,     \* values of the proposal flags (viper)
    cliPayer,  \* fee payer the command line gave to NewTxBuilderFromCLI
    txBldr,    \* the transaction builder
    loc,       \* local variables of the RunE closure
    err,       \* the error RunE returns
    sent,      \* what was handed to GenerateOrBroadcastMsgs
    log        \* calls made so far, in order, each with its outcome

vars == <<pc, cmd, args, flagv, cliPayer, txBldr, loc, err, sent, log>>

(***************************************************************************)
(* Bounds of the model.                                                    *)
(***************************************************************************)
MaxAccountLen == 1
MaxIdLen == 2

StringsUpTo(chars, n) == UNION {[1..k -> chars] : k \in 0..n}

(***************************************************************************)
(* strconv.ParseUint(s, 10, 64).  A uint64 is five limbs in base 10000,    *)
(* most significant first, so that values up to 2^64-1 are computed        *)
(* without leaving the range of the checker's integers.                    *)
(***************************************************************************)
Digits == <<"0", "1", "2", "3", "4", "5", "6", "7", "8", "9">>

IsDigit(c) == \E i \in 1..Len(Digits) : Digits[i] = c

DigitVal(c) == (CHOOSE i \in 1..Len(Digits) : Digits[i] = c) - 1

U64Zero == <<0, 0, 0, 0, 0>>

\* 2^64 - 1 = 18446744073709551615
U64Max == <<1844, 6744, 737, 955, 1615>>

\* maxUint64/10 + 1 = 1844674407370955162
U64Cutoff == <<184, 4674, 4073, 7095, 5162>>

U64Less(a, b) ==
    \E i \in 1..5 : a[i] < b[i] /\ \A j \in 1..(i - 1) : a[j] = b[j]

\* n*10 + d, for n below the cutoff
U64Mul10Add(n, d) ==
    LET t5 == n[5] * 10 + d
        t4 == n[4] * 10 + (t5 \div 10000)
        t3 == n[3] * 10 + (t4 \div 10000)
        t2 == n[2] * 10 + (t3 \div 10000)
        t1 == n[1] * 10 + (t2 \div 10000)
    IN  <<t1 % 10000, t2 % 10000, t3 % 10000, t4 % 10000, t5 % 10000>>

\* the loop over the characters of s, with n the value of s[1..i-1]; the set
\* binds n1 to the value of n*10 + d before the next iteration uses it
RECURSIVE ParseUintLoop(_, _, _)
ParseUintLoop(s, i, n) ==
    IF i > Len(s) THEN [ok |-> TRUE, val |-> n, err |-> "nil"]
    ELSE IF ~IsDigit(s[i]) THEN [ok |-> FALSE, val |-> U64Zero, err |-> "ErrSyntax"]
    ELSE IF ~U64Less(n, U64Cutoff) THEN [ok |-> FALSE, val |-> U64Max, err |-> "ErrRange"]
    ELSE CHOOSE r \in { IF U64Less(U64Max, n1)
                        THEN [ok |-> FALSE, val |-> U64Max, err |-> "ErrRange"]
                        ELSE ParseUintLoop(s, i + 1, n1)
                        : n1 \in {U64Mul10Add(n, DigitVal(s[i]))} } : TRUE

\* a variant that accepts a leading sign, as strconv.ParseInt does
ParseUintSigned(s) ==
    IF s = <<>> THEN [ok |-> FALSE, val |-> U64Zero, err |-> "ErrSyntax"]
    ELSE IF s[1] \in {"+", "-"} /\ Len(s) > 1 THEN ParseUintLoop(Tail(s), 1, U64Zero)
    ELSE ParseUintLoop(s, 1, U64Zero)

ParseUint(s) ==
    IF s = <<>> THEN [ok |-> FALSE, val |-> U64Zero, err |-> "ErrSyntax"]
    ELSE ParseUintLoop(s, 1, U64Zero)

(***************************************************************************)
(* Errors.  ctx is the text the command itself puts in front of (or in     *)
(* place of) the cause; it is empty when the command returns the cause     *)
(* as it got it.                                                           *)
(***************************************************************************)
NoError == [step |-> "none", ctx |-> <<>>, cause |-> "nil"]

\* return err
Unwrapped(step, cause) == [step |-> step, ctx |-> <<>>, cause |-> cause]

\* sdkerrors.Wrap(err, text), sdkerrors.Wrapf(err, format, ...)
Wrap(step, cause, text) == [step |-> step, ctx |-> text, cause |-> cause]

\* fmt.Errorf(format, ...): the cause is dropped
Errorf(step, text) == [step |-> step, ctx |-> text, cause |-> "nil"]

(***************************************************************************)
(* Account identifiers.                                                    *)
(***************************************************************************)
NameChars == {"j", "k"}

NoAccount == [value |-> <<>>]

NewAccountIDFromStr(str) ==
    IF str # <<>> /\ \A i \in 1..Len(str) : str[i] \in NameChars
    THEN [ok |-> TRUE, id |-> [value |-> str], err |-> "nil"]
    ELSE [ok |-> FALSE, id |-> NoAccount, err |-> "invalid account id"]

\* AccountID.String(), as %s formats it
AccountIDString(id) == id.value

(***************************************************************************)
(* Transaction builder.                                                    *)
(***************************************************************************)
NewTxBuilderFromCLI(payer) == [feePayer |-> [value |-> payer]]

FeePayer(bldr) == bldr.feePayer

Empty(id) == id.value = <<>>

WithPayer(bldr, payer) == [bldr EXCEPT !.feePayer = [value |-> payer]]

(***************************************************************************)
(* Proposal flags.                                                         *)
(***************************************************************************)
ProposalFlags == <<"title", "description", "type", "deposit">>

NoFlags == [title |-> "", description |-> "", type |-> "", deposit |-> "", proposal |-> ""]

NoProposal == [Title |-> "", Description |-> "", Type |-> "", Deposit |-> ""]

\* file is the outcome of reading and decoding the proposal file
parseSubmitProposalFlags(fl, file) ==
    IF fl.proposal = ""
    THEN [ok |-> TRUE,
          proposal |-> [Title |-> fl.title, Description |-> fl.description,
                        Type |-> fl.type, Deposit |-> fl.deposit],
          err |-> "nil"]
    ELSE IF \E i \in 1..Len(ProposalFlags) : fl[ProposalFlags[i]] # ""
    THEN [ok |-> FALSE, proposal |-> NoProposal,
          err |-> "flag provided alongside --proposal"]
    ELSE IF file.ok
    THEN [ok |-> TRUE, proposal |-> file.proposal, err |-> "nil"]
    ELSE [ok |-> FALSE, proposal |-> NoProposal, err |-> "proposal file error"]

(***************************************************************************)
(* Vote options.                                                           *)
(***************************************************************************)
OptionEmpty == "Empty"

NormalizeVoteOption(option) ==
    CASE option \in {"Yes", "yes"} -> "Yes"
      [] option \in {"Abstain", "abstain"} -> "Abstain"
      [] option \in {"No", "no"} -> "No"
      [] option \in {"NoWithVeto", "no_with_veto"} -> "NoWithVeto"
      [] OTHER -> ""

VoteOptionFromString(str) ==
    CASE str = "Yes" -> [ok |-> TRUE, option |-> "OptionYes", err |-> "nil"]
      [] str = "Abstain" -> [ok |-> TRUE, option |-> "OptionAbstain", err |-> "nil"]
      [] str = "No" -> [ok |-> TRUE, option |-> "OptionNo", err |-> "nil"]
      [] str = "NoWithVeto" -> [ok |-> TRUE, option |-> "OptionNoWithVeto", err |-> "nil"]
      [] OTHER -> [ok |-> FALSE, option |-> OptionEmpty, err |-> "not a valid vote option"]

(***************************************************************************)
(* Values the commands build.                                              *)
(***************************************************************************)
NoCoins == [parsed |-> FALSE, from |-> ""]

NoContent == [title |-> "", description |-> "", type |-> "none"]

NoAddress == [resolved |-> FALSE, of |-> <<>>]

NoProposalID == <<>>

NoMsg ==
    [type |-> "none", auth |-> NoAddress, account |-> NoAccount, content |-> NoContent,
     amount |-> NoCoins, proposalID |-> NoProposalID, option |-> OptionEmpty]

NoSent == [called |-> FALSE, from |-> NoAccount, txBldr |-> NewTxBuilderFromCLI(<<>>), msgs |-> <<>>]

NoLoc ==
    [proposal |-> NoProposal, amount |-> NoCoins, account |-> NoAccount,
     content |-> NoContent, address |-> NoAddress, proposalID |-> NoProposalID,
     option |-> OptionEmpty, msg |-> NoMsg, from |-> NoAccount]

ContentFromProposalType(title, description, type) ==
    [title |-> title, description |-> description, type |-> type]

NewKuMsgSubmitProposal(auth, content, amount, proposer) ==
    [NoMsg EXCEPT !.type = "KuMsgSubmitProposal", !.auth = auth, !.content = content,
                  !.amount = amount, !.account = proposer]

NewKuMsgDeposit(auth, depositor, proposalID, amount) ==
    [NoMsg EXCEPT !.type = "KuMsgDeposit", !.auth = auth, !.account = depositor,
                  !.proposalID = proposalID, !.amount = amount]

NewKuMsgVote(auth, voter, proposalID, option) ==
    [NoMsg EXCEPT !.type = "KuMsgVote", !.auth = auth, !.account = voter,
                  !.proposalID = proposalID, !.option = option]

NewMsgGovUnjail(auth, validator) ==
    [NoMsg EXCEPT !.type = "MsgGovUnjail", !.auth = auth, !.account = validator]

(***************************************************************************)
(* Inputs of an invocation.                                                *)
(***************************************************************************)
ArgChars == {"j", "!"}

AccountArgs == StringsUpTo(ArgChars, MaxAccountLen)

IdChars == {"0", "7"}

BoundaryIds ==
    { <<"x">>, <<"-">>, <<"-", "7">>, <<"7", "-">>, <<"+", "7">>, <<"0", "x", "7">>, <<"7", "_", "0">>, <<" ", "7">>,
      <<"1","8","4","4","6","7","4","4","0","7","3","7","0","9","5","5","1","6","1","5">>,
      <<"1","8","4","4","6","7","4","4","0","7","3","7","0","9","5","5","1","6","1","6">>,
      <<"1","8","4","4","6","7","4","4","0","7","3","7","0","9","5","5","1","6","2","0">>,
      <<"0","1","8","4","4","6","7","4","4","0","7","3","7","0","9","5","5","1","6","1","5">>,
      <<"9","9","9","9","9","9","9","9","9","9","9","9","9","9","9","9","9","9","9","9">>,
      <<"1","0","0","0","0","0","0","0","0","0","0","0","0","0","0","0","0","0","0","0","0">> }

ProposalIdArgs == StringsUpTo(IdChars, MaxIdLen) \cup BoundaryIds

CoinArgs == {"10stake", "stake10"}

OptionArgs ==
    {"yes", "Yes", "no", "No", "no_with_veto", "NoWithVeto", "abstain", "Abstain",
     "YES", "maybe", ""}

CliPayers == {<<>>, <<"k">>}

FlagInputs ==
    [title : {"", "Test Proposal"}, description : {"", "My awesome proposal"},
     type : {"", "Text"}, deposit : {"", "10test"}, proposal : {"", "proposal.json"}]

FileOutcomes ==
    { [ok |-> FALSE, proposal |-> NoProposal],
      [ok |-> TRUE,
       proposal |-> [Title |-> "Test Proposal", Description |-> "My awesome proposal",
                     Type |-> "Text", Deposit |-> "10test"]] }

inputs == <<cmd, args, flagv, cliPayer>>

Init ==
    /\ pc = "idle"
    /\ cmd = "none"
    /\ args = <<>>
    /\ flagv = NoFlags
    /\ cliPayer = <<>>
    /\ txBldr = NewTxBuilderFromCLI(<<>>)
    /\ loc = NoLoc
    /\ err = NoError
    /\ sent = NoSent
    /\ log = <<>>

Entry(op, ok) == [op |-> op, ok |-> ok]

QueryErrorText(account) ==
    <<"query account ">> \o AccountIDString(account) \o <<" auth error">>

(***************************************************************************)
(* submit-proposal [proposer]                                              *)
(***************************************************************************)
SubmitProposal_Run ==
    /\ pc = "idle"
    /\ \E a0 \in AccountArgs, fl \in FlagInputs, p \in CliPayers :
          /\ cmd' = "submit-proposal"
          /\ args' = <<a0>>
          /\ flagv' = fl
          /\ cliPayer' = p
          /\ txBldr' = NewTxBuilderFromCLI(p)
    /\ pc' = "parseSubmitProposalFlags"
    /\ UNCHANGED <<loc, err, sent, log>>

\* the flags are taken even when the proposal file is given with them
SubmitProposal_ParseFlags_IgnoreConflict ==
    /\ cmd = "submit-proposal" /\ pc = "parseSubmitProposalFlags"
    /\ \E file \in FileOutcomes :
          LET r == parseSubmitProposalFlags(flagv, file)
          IN  /\ log' = Append(log, Entry("parseSubmitProposalFlags", r.ok))
              /\ loc' = [loc EXCEPT !.proposal = r.proposal]
              /\ pc' = "ParseCoins"
              /\ err' = err
    /\ UNCHANGED <<inputs, txBldr, sent>>

SubmitProposal_ParseFlags ==
    /\ cmd = "submit-proposal" /\ pc = "parseSubmitProposalFlags"
    /\ \E file \in FileOutcomes :
          LET r == parseSubmitProposalFlags(flagv, file)
          IN  /\ log' = Append(log, Entry("parseSubmitProposalFlags", r.ok))
              /\ IF r.ok
                 THEN /\ loc' = [loc EXCEPT !.proposal = r.proposal]
                      /\ pc' = "ParseCoins"
                      /\ err' = err
                 ELSE /\ err' = Unwrapped("parseSubmitProposalFlags", r.err)
                      /\ pc' = "done"
                      /\ loc' = loc
    /\ UNCHANGED <<inputs, txBldr, sent>>

SubmitProposal_ParseCoins ==
    /\ cmd = "submit-proposal" /\ pc = "ParseCoins"
    /\ \E ok \in BOOLEAN :
          /\ log' = Append(log, Entry("ParseCoins", ok))
          /\ IF ok
             THEN /\ loc' = [loc EXCEPT !.amount = [parsed |-> TRUE, from |-> loc.proposal.Deposit]]
                  /\ pc' = "NewAccountIDFromStr"
                  /\ err' = err
             ELSE /\ err' = Unwrapped("ParseCoins", "invalid coins")
                  /\ pc' = "done"
                  /\ loc' = loc
    /\ UNCHANGED <<inputs, txBldr, sent>>

SubmitProposal_AccountID ==
    /\ cmd = "submit-proposal" /\ pc = "NewAccountIDFromStr"
    /\ LET r == NewAccountIDFromStr(args[1])
       IN  /\ log' = Append(log, Entry("NewAccountIDFromStr", r.ok))
           /\ IF r.ok
              THEN /\ loc' = [loc EXCEPT !.account = r.id]
                   /\ pc' = "QueryAccountAuth"
                   /\ err' = err
              ELSE /\ err' = Wrap("NewAccountIDFromStr", r.err, <<"proposer", " account id error">>)
                   /\ pc' = "done"
                   /\ loc' = loc
    /\ UNCHANGED <<inputs, txBldr, sent>>

SubmitProposal_Query ==
    /\ cmd = "submit-proposal" /\ pc = "QueryAccountAuth"
    /\ \E ok \in BOOLEAN :
          LET content == ContentFromProposalType(loc.proposal.Title,
                             loc.proposal.Description, loc.proposal.Type)
          IN  /\ log' = Append(log, Entry("QueryAccountAuth", ok))
              /\ IF ok
                 THEN /\ loc' = [loc EXCEPT !.content = content,
                                    !.address = [resolved |-> TRUE, of |-> loc.account.value]]
                      /\ pc' = "NewMsg"
                      /\ err' = err
                 ELSE /\ err' = Wrap("QueryAccountAuth", "query failed", QueryErrorText(loc.account))
                      /\ pc' = "done"
                      /\ loc' = [loc EXCEPT !.content = content]
    /\ UNCHANGED <<inputs, txBldr, sent>>

SubmitProposal_Msg ==
    /\ cmd = "submit-proposal" /\ pc = "NewMsg"
    /\ \E ok \in BOOLEAN :
          LET msg == NewKuMsgSubmitProposal(loc.address, loc.content, loc.amount, loc.account)
          IN  /\ log' = log \o <<Entry("NewMsg", TRUE), Entry("ValidateBasic", ok)>>
              /\ loc' = [loc EXCEPT !.msg = msg]
              /\ IF ok
                 THEN pc' = "WithPayer" /\ err' = err
                 ELSE pc' = "done" /\ err' = Unwrapped("ValidateBasic", "invalid message")
    /\ UNCHANGED <<inputs, txBldr, sent>>

SubmitProposal_Payer ==
    /\ cmd = "submit-proposal" /\ pc = "WithPayer"
    /\ loc' = [loc EXCEPT !.from = loc.account]
    /\ txBldr' = IF Empty(FeePayer(txBldr)) THEN WithPayer(txBldr, args[1]) ELSE txBldr
    /\ log' = Append(log, Entry("WithPayer", TRUE))
    /\ pc' = "GenerateOrBroadcastMsgs"
    /\ UNCHANGED <<inputs, err, sent>>

SubmitProposal_Broadcast ==
    /\ cmd = "submit-proposal" /\ pc = "GenerateOrBroadcastMsgs"
    /\ sent' = [called |-> TRUE, from |-> loc.from, txBldr |-> txBldr, msgs |-> <<loc.msg>>]
    /\ \E ok \in BOOLEAN :
          /\ log' = Append(log, Entry("GenerateOrBroadcastMsgs", ok))
          /\ err' = IF ok THEN NoError
                    ELSE Unwrapped("GenerateOrBroadcastMsgs", "broadcast failed")
    /\ pc' = "done"
    /\ UNCHANGED <<inputs, txBldr, loc>>

(***************************************************************************)
(* deposit [depositor] [proposal-id] [deposit]                             *)
(***************************************************************************)
Deposit_Run ==
    /\ pc = "idle"
    /\ \E a0 \in AccountArgs, a1 \in ProposalIdArgs, a2 \in CoinArgs, p \in CliPayers :
          /\ cmd' = "deposit"
          /\ args' = <<a0, a1, a2>>
          /\ cliPayer' = p
          /\ txBldr' = NewTxBuilderFromCLI(p)
    /\ pc' = "ParseUint"
    /\ UNCHANGED <<flagv, loc, err, sent, log>>

Deposit_ParseUint ==
    /\ cmd = "deposit" /\ pc = "ParseUint"
    /\ LET r == ParseUint(args[2])
       IN  /\ log' = Append(log, Entry("ParseUint", r.ok))
           /\ IF r.ok
              THEN /\ loc' = [loc EXCEPT !.proposalID = r.val]
                   /\ pc' = "ParseCoins"
                   /\ err' = err
              ELSE /\ err' = Errorf("ParseUint",
                                 <<"proposal-id ">> \o args[2]
                                 \o <<" not a valid uint, please input a valid proposal-id">>)
                   /\ pc' = "done"
                   /\ loc' = loc
    /\ UNCHANGED <<inputs, txBldr, sent>>

\* the error of ParseCoins is not looked at
Deposit_ParseCoins_IgnoreError ==
    /\ cmd = "deposit" /\ pc = "ParseCoins"
    /\ \E ok \in BOOLEAN :
          /\ log' = Append(log, Entry("ParseCoins", ok))
          /\ loc' = [loc EXCEPT !.amount = [parsed |-> ok, from |-> args[3]]]
          /\ pc' = "NewAccountIDFromStr"
          /\ err' = err
    /\ UNCHANGED <<inputs, txBldr, sent>>

Deposit_ParseCoins ==
    /\ cmd = "deposit" /\ pc = "ParseCoins"
    /\ \E ok \in BOOLEAN :
          /\ log' = Append(log, Entry("ParseCoins", ok))
          /\ IF ok
             THEN /\ loc' = [loc EXCEPT !.amount = [parsed |-> TRUE, from |-> args[3]]]
                  /\ pc' = "NewAccountIDFromStr"
                  /\ err' = err
             ELSE /\ err' = Unwrapped("ParseCoins", "invalid coins")
                  /\ pc' = "done"
                  /\ loc' = loc
    /\ UNCHANGED <<inputs, txBldr, sent>>

Deposit_AccountID ==
    /\ cmd = "deposit" /\ pc = "NewAccountIDFromStr"
    /\ LET r == NewAccountIDFromStr(args[1])
       IN  /\ log' = Append(log, Entry("NewAccountIDFromStr", r.ok))
           /\ IF r.ok
              THEN /\ loc' = [loc EXCEPT !.account = r.id]
                   /\ pc' = "QueryAccountAuth"
                   /\ err' = err
              ELSE /\ err' = Wrap("NewAccountIDFromStr", r.err, <<"depositor", " account id error">>)
                   /\ pc' = "done"
                   /\ loc' = loc
    /\ UNCHANGED <<inputs, txBldr, sent>>

\* a failed query is made again
Deposit_Query_Retry ==
    /\ cmd = "deposit" /\ pc = "QueryAccountAuth"
    /\ Len(log) < 5
    /\ \E ok \in BOOLEAN :
          /\ log' = Append(log, Entry("QueryAccountAuth", ok))
          /\ IF ok
             THEN /\ loc' = [loc EXCEPT !.address = [resolved |-> TRUE, of |-> loc.account.value]]
                  /\ pc' = "NewMsg"
                  /\ err' = err
             ELSE /\ err' = err
                  /\ pc' = "QueryAccountAuth"
                  /\ loc' = loc
    /\ UNCHANGED <<inputs, txBldr, sent>>

Deposit_Query ==
    /\ cmd = "deposit" /\ pc = "QueryAccountAuth"
    /\ \E ok \in BOOLEAN :
          /\ log' = Append(log, Entry("QueryAccountAuth", ok))
          /\ IF ok
             THEN /\ loc' = [loc EXCEPT !.address = [resolved |-> TRUE, of |-> loc.account.value]]
                  /\ pc' = "NewMsg"
                  /\ err' = err
             ELSE /\ err' = Wrap("QueryAccountAuth", "query failed", QueryErrorText(loc.account))
                  /\ pc' = "done"
                  /\ loc' = loc
    /\ UNCHANGED <<inputs, txBldr, sent>>

\* the result of ValidateBasic is not looked at
Deposit_Msg_IgnoreValidation ==
    /\ cmd = "deposit" /\ pc = "NewMsg"
    /\ \E ok \in BOOLEAN :
          LET msg == NewKuMsgDeposit(loc.address, loc.account, loc.proposalID, loc.amount)
          IN  /\ log' = log \o <<Entry("NewMsg", TRUE), Entry("ValidateBasic", ok)>>
              /\ loc' = [loc EXCEPT !.msg = msg]
              /\ pc' = "WithPayer"
              /\ err' = err
    /\ UNCHANGED <<inputs, txBldr, sent>>

Deposit_Msg ==
    /\ cmd = "deposit" /\ pc = "NewMsg"
    /\ \E ok \in BOOLEAN :
          LET msg == NewKuMsgDeposit(loc.address, loc.account, loc.proposalID, loc.amount)
          IN  /\ log' = log \o <<Entry("NewMsg", TRUE), Entry("ValidateBasic", ok)>>
              /\ loc' = [loc EXCEPT !.msg = msg]
              /\ IF ok
                 THEN pc' = "WithPayer" /\ err' = err
                 ELSE pc' = "done" /\ err' = Unwrapped("ValidateBasic", "invalid message")
    /\ UNCHANGED <<inputs, txBldr, sent>>

Deposit_Payer ==
    /\ cmd = "deposit" /\ pc = "WithPayer"
    /\ loc' = [loc EXCEPT !.from = loc.account]
    /\ txBldr' = IF Empty(FeePayer(txBldr)) THEN WithPayer(txBldr, args[1]) ELSE txBldr
    /\ log' = Append(log, Entry("WithPayer", TRUE))
    /\ pc' = "GenerateOrBroadcastMsgs"
    /\ UNCHANGED <<inputs, err, sent>>

Deposit_Broadcast ==
    /\ cmd = "deposit" /\ pc = "GenerateOrBroadcastMsgs"
    /\ sent' = [called |-> TRUE, from |-> loc.from, txBldr |-> txBldr, msgs |-> <<loc.msg>>]
    /\ \E ok \in BOOLEAN :
          /\ log' = Append(log, Entry("GenerateOrBroadcastMsgs", ok))
          /\ err' = IF ok THEN NoError
                    ELSE Unwrapped("GenerateOrBroadcastMsgs", "broadcast failed")
    /\ pc' = "done"
    /\ UNCHANGED <<inputs, txBldr, loc>>

(***************************************************************************)
(* vote [voter-account] [proposal-id] [option]                             *)
(***************************************************************************)
Vote_Run ==
    /\ pc = "idle"
    /\ \E a0 \in AccountArgs, a1 \in ProposalIdArgs, a2 \in OptionArgs, p \in CliPayers :
          /\ cmd' = "vote"
          /\ args' = <<a0, a1, a2>>
          /\ cliPayer' = p
          /\ txBldr' = NewTxBuilderFromCLI(p)
    /\ pc' = "ParseUint"
    /\ UNCHANGED <<flagv, loc, err, sent, log>>

\* the error text leaves the argument out
Vote_ParseUint_NoArg ==
    /\ cmd = "vote" /\ pc = "ParseUint"
    /\ LET r == ParseUint(args[2])
       IN  /\ log' = Append(log, Entry("ParseUint", r.ok))
           /\ IF r.ok
              THEN /\ loc' = [loc EXCEPT !.proposalID = r.val]
                   /\ pc' = "VoteOptionFromString"
                   /\ err' = err
              ELSE /\ err' = Errorf("ParseUint",
                                 <<"proposal-id ">> \o <<"not a valid int, please input a valid proposal-id">>)
                   /\ pc' = "done"
                   /\ loc' = loc
    /\ UNCHANGED <<inputs, txBldr, sent>>

Vote_ParseUint ==
    /\ cmd = "vote" /\ pc = "ParseUint"
    /\ LET r == ParseUint(args[2])
       IN  /\ log' = Append(log, Entry("ParseUint", r.ok))
           /\ IF r.ok
              THEN /\ loc' = [loc EXCEPT !.proposalID = r.val]
                   /\ pc' = "VoteOptionFromString"
                   /\ err' = err
              ELSE /\ err' = Errorf("ParseUint",
                                 <<"proposal-id ">> \o args[2]
                                 \o <<" not a valid int, please input a valid proposal-id">>)
                   /\ pc' = "done"
                   /\ loc' = loc
    /\ UNCHANGED <<inputs, txBldr, sent>>

\* the error of VoteOptionFromString is not looked at
Vote_Option_IgnoreError ==
    /\ cmd = "vote" /\ pc = "VoteOptionFromString"
    /\ LET r == VoteOptionFromString(NormalizeVoteOption(args[3]))
       IN  /\ log' = Append(log, Entry("VoteOptionFromString", r.ok))
           /\ loc' = [loc EXCEPT !.option = r.option]
           /\ pc' = "NewAccountIDFromStr"
           /\ err' = err
    /\ UNCHANGED <<inputs, txBldr, sent>>

Vote_Option ==
    /\ cmd = "vote" /\ pc = "VoteOptionFromString"
    /\ LET r == VoteOptionFromString(NormalizeVoteOption(args[3]))
       IN  /\ log' = Append(log, Entry("VoteOptionFromString", r.ok))
           /\ IF r.ok
              THEN /\ loc' = [loc EXCEPT !.option = r.option]
                   /\ pc' = "NewAccountIDFromStr"
                   /\ err' = err
              ELSE /\ err' = Unwrapped("VoteOptionFromString", r.err)
                   /\ pc' = "done"
                   /\ loc' = loc
    /\ UNCHANGED <<inputs, txBldr, sent>>

Vote_AccountID ==
    /\ cmd = "vote" /\ pc = "NewAccountIDFromStr"
    /\ LET r == NewAccountIDFromStr(args[1])
       IN  /\ log' = Append(log, Entry("NewAccountIDFromStr", r.ok))
           /\ IF r.ok
              THEN /\ loc' = [loc EXCEPT !.account = r.id]
                   /\ pc' = "QueryAccountAuth"
                   /\ err' = err
              ELSE /\ err' = Wrap("NewAccountIDFromStr", r.err, <<"depositor", " account id error">>)
                   /\ pc' = "done"
                   /\ loc' = loc
    /\ UNCHANGED <<inputs, txBldr, sent>>

Vote_Query ==
    /\ cmd = "vote" /\ pc = "QueryAccountAuth"
    /\ \E ok \in BOOLEAN :
          /\ log' = Append(log, Entry("QueryAccountAuth", ok))
          /\ IF ok
             THEN /\ loc' = [loc EXCEPT !.address = [resolved |-> TRUE, of |-> loc.account.value]]
                  /\ pc' = "NewMsg"
                  /\ err' = err
             ELSE /\ err' = Wrap("QueryAccountAuth", "query failed", QueryErrorText(loc.account))
                  /\ pc' = "done"
                  /\ loc' = loc
    /\ UNCHANGED <<inputs, txBldr, sent>>

Vote_Msg ==
    /\ cmd = "vote" /\ pc = "NewMsg"
    /\ \E ok \in BOOLEAN :
          LET msg == NewKuMsgVote(loc.address, loc.account, loc.proposalID, loc.option)
          IN  /\ log' = log \o <<Entry("NewMsg", TRUE), Entry("ValidateBasic", ok)>>
              /\ loc' = [loc EXCEPT !.msg = msg]
              /\ IF ok
                 THEN pc' = "WithPayer" /\ err' = err
                 ELSE pc' = "done" /\ err' = Unwrapped("ValidateBasic", "invalid message")
    /\ UNCHANGED <<inputs, txBldr, sent>>

Vote_Payer ==
    /\ cmd = "vote" /\ pc = "WithPayer"
    /\ loc' = [loc EXCEPT !.from = loc.account]
    /\ txBldr' = IF Empty(FeePayer(txBldr)) THEN WithPayer(txBldr, args[1]) ELSE txBldr
    /\ log' = Append(log, Entry("WithPayer", TRUE))
    /\ pc' = "GenerateOrBroadcastMsgs"
    /\ UNCHANGED <<inputs, err, sent>>

Vote_Broadcast ==
    /\ cmd = "vote" /\ pc = "GenerateOrBroadcastMsgs"
    /\ sent' = [called |-> TRUE, from |-> loc.from, txBldr |-> txBldr, msgs |-> <<loc.msg>>]
    /\ \E ok \in BOOLEAN :
          /\ log' = Append(log, Entry("GenerateOrBroadcastMsgs", ok))
          /\ err' = IF ok THEN NoError
                    ELSE Unwrapped("GenerateOrBroadcastMsgs", "broadcast failed")
    /\ pc' = "done"
    /\ UNCHANGED <<inputs, txBldr, loc>>

(***************************************************************************)
(* unjail [validator-account]                                              *)
(***************************************************************************)
UnJail_Run ==
    /\ pc = "idle"
    /\ \E a0 \in AccountArgs, p \in CliPayers :
          /\ cmd' = "unjail"
          /\ args' = <<a0>>
          /\ cliPayer' = p
          /\ txBldr' = NewTxBuilderFromCLI(p)
    /\ pc' = "NewAccountIDFromStr"
    /\ UNCHANGED <<flagv, loc, err, sent, log>>

UnJail_AccountID ==
    /\ cmd = "unjail" /\ pc = "NewAccountIDFromStr"
    /\ LET r == NewAccountIDFromStr(args[1])
       IN  /\ log' = Append(log, Entry("NewAccountIDFromStr", r.ok))
           /\ IF r.ok
              THEN /\ loc' = [loc EXCEPT !.account = r.id]
                   /\ pc' = "QueryAccountAuth"
                   /\ err' = err
              ELSE /\ err' = Wrap("NewAccountIDFromStr", r.err, <<"depositor", " account id error">>)
                   /\ pc' = "done"
                   /\ loc' = loc
    /\ UNCHANGED <<inputs, txBldr, sent>>

\* the error of the query is not looked at
UnJail_Query_IgnoreError ==
    /\ cmd = "unjail" /\ pc = "QueryAccountAuth"
    /\ \E ok \in BOOLEAN :
          /\ log' = Append(log, Entry("QueryAccountAuth", ok))
          /\ loc' = [loc EXCEPT !.address = [resolved |-> ok, of |-> loc.account.value]]
          /\ pc' = "NewMsg"
          /\ err' = err
    /\ UNCHANGED <<inputs, txBldr, sent>>

UnJail_Query ==
    /\ cmd = "unjail" /\ pc = "QueryAccountAuth"
    /\ \E ok \in BOOLEAN :
          /\ log' = Append(log, Entry("QueryAccountAuth", ok))
          /\ IF ok
             THEN /\ loc' = [loc EXCEPT !.address = [resolved |-> TRUE, of |-> loc.account.value]]
                  /\ pc' = "NewMsg"
                  /\ err' = err
             ELSE /\ err' = Wrap("QueryAccountAuth", "query failed", QueryErrorText(loc.account))
                  /\ pc' = "done"
                  /\ loc' = loc
    /\ UNCHANGED <<inputs, txBldr, sent>>

UnJail_Msg ==
    /\ cmd = "unjail" /\ pc = "NewMsg"
    /\ \E ok \in BOOLEAN :
          LET msg == NewMsgGovUnjail(loc.address, loc.account)
          IN  /\ log' = log \o <<Entry("NewMsg", TRUE), Entry("ValidateBasic", ok)>>
              /\ loc' = [loc EXCEPT !.msg = msg]
              /\ IF ok
                 THEN pc' = "WithPayer" /\ err' = err
                 ELSE pc' = "done" /\ err' = Unwrapped("ValidateBasic", "invalid message")
    /\ UNCHANGED <<inputs, txBldr, sent>>

\* the fee payer is set without looking at the one the builder has
UnJail_Payer_Always ==
    /\ cmd = "unjail" /\ pc = "WithPayer"
    /\ loc' = [loc EXCEPT !.from = loc.account]
    /\ txBldr' = WithPayer(txBldr, args[1])
    /\ log' = Append(log, Entry("WithPayer", TRUE))
    /\ pc' = "GenerateOrBroadcastMsgs"
    /\ UNCHANGED <<inputs, err, sent>>

UnJail_Payer ==
    /\ cmd = "unjail" /\ pc = "WithPayer"
    /\ loc' = [loc EXCEPT !.from = loc.account]
    /\ txBldr' = IF Empty(FeePayer(txBldr)) THEN WithPayer(txBldr, args[1]) ELSE txBldr
    /\ log' = Append(log, Entry("WithPayer", TRUE))
    /\ pc' = "GenerateOrBroadcastMsgs"
    /\ UNCHANGED <<inputs, err, sent>>

UnJail_Broadcast ==
    /\ cmd = "unjail" /\ pc = "GenerateOrBroadcastMsgs"
    /\ sent' = [called |-> TRUE, from |-> loc.from, txBldr |-> txBldr, msgs |-> <<loc.msg>>]
    /\ \E ok \in BOOLEAN :
          /\ log' = Append(log, Entry("GenerateOrBroadcastMsgs", ok))
          /\ err' = IF ok THEN NoError
                    ELSE Unwrapped("GenerateOrBroadcastMsgs", "broadcast failed")
    /\ pc' = "done"
    /\ UNCHANGED <<inputs, txBldr, loc>>

(***************************************************************************)
(* The commands; each invocation runs one of them to its return.           *)
(***************************************************************************)
GetCmdSubmitProposal ==
    \/ SubmitProposal_ParseFlags
    \/ SubmitProposal_ParseCoins
    \/ SubmitProposal_AccountID
    \/ SubmitProposal_Query
    \/ SubmitProposal_Msg
    \/ SubmitProposal_Payer
    \/ SubmitProposal_Broadcast

GetCmdDeposit ==
    \/ Deposit_ParseUint
    \/ Deposit_ParseCoins
    \/ Deposit_AccountID
    \/ Deposit_Query
    \/ Deposit_Msg
    \/ Deposit_Payer
    \/ Deposit_Broadcast

GetCmdVote ==
    \/ Vote_ParseUint
    \/ Vote_Option
    \/ Vote_AccountID
    \/ Vote_Query
    \/ Vote_Msg
    \/ Vote_Payer
    \/ Vote_Broadcast

GetCmdUnJail ==
    \/ UnJail_AccountID
    \/ UnJail_Query
    \/ UnJail_Msg
    \/ UnJail_Payer
    \/ UnJail_Broadcast

\* the governance command group: the user invokes one of its commands
GetTxCmd ==
    \/ SubmitProposal_Run
    \/ Deposit_Run
    \/ Vote_Run
    \/ UnJail_Run

RunE == GetCmdSubmitProposal \/ GetCmdDeposit \/ GetCmdVote \/ GetCmdUnJail

Next == GetTxCmd \/ RunE

Spec == Init /\ [][Next]_vars

\* an invoked command takes its next step: RunE is straight-line code and the
\* two external calls are synchronous round trips that return
FairSpec == Spec /\ WF_vars(RunE)

(***************************************************************************)
(* Vocabulary of the properties.                                           *)
(***************************************************************************)
Called(op) == \E i \in 1..Len(log) : log[i].op = op

Failed(op) == \E i \in 1..Len(log) : log[i].op = op /\ ~log[i].ok

Count(op) == Cardinality({i \in 1..Len(log) : log[i].op = op})

Returned == pc = "done"

\* sub occurs in text
Contains(text, sub) ==
    \E i \in 0..(Len(text) - Len(sub)) :
        \A k \in 1..Len(sub) : text[i + k] = sub[k]

RECURSIVE StripZeros(_)
StripZeros(s) ==
    IF Len(s) > 1 /\ s[1] = "0" THEN StripZeros(Tail(s)) ELSE s

AllDigits(s) == s # <<>> /\ \A i \in 1..Len(s) : IsDigit(s[i])

MaxUint64Decimal ==
    <<"1","8","4","4","6","7","4","4","0","7","3","7","0","9","5","5","1","6","1","5">>

\* a <= b, for decimal numerals without leading zeros
DecLeq(a, b) ==
    \/ Len(a) < Len(b)
    \/ /\ Len(a) = Len(b)
       /\ \/ a = b
          \/ \E i \in 1..Len(a) :
                /\ DigitVal(a[i]) < DigitVal(b[i])
                /\ \A j \in 1..(i - 1) : a[j] = b[j]

\* s is a base-10 numeral of a value in 0 .. 2^64-1
IsUint64Decimal(s) == AllDigits(s) /\ DecLeq(StripZeros(s), MaxUint64Decimal)

LimbDigits(l) ==
    <<Digits[(l \div 1000) + 1], Digits[((l \div 100) % 10) + 1],
      Digits[((l \div 10) % 10) + 1], Digits[(l % 10) + 1]>>

\* the decimal numeral of a uint64
U64Decimal(n) ==
    StripZeros(LimbDigits(n[1]) \o LimbDigits(n[2]) \o LimbDigits(n[3])
               \o LimbDigits(n[4]) \o LimbDigits(n[5]))

Commands == {"submit-proposal", "deposit", "vote", "unjail"}

TypeOK ==
    /\ pc \in {"idle", "done", "parseSubmitProposalFlags", "ParseUint", "ParseCoins",
               "VoteOptionFromString", "NewAccountIDFromStr", "QueryAccountAuth",
               "NewMsg", "WithPayer", "GenerateOrBroadcastMsgs"}
    /\ cmd \in Commands \cup {"none"}
    /\ (pc = "idle") = (cmd = "none")

(***************************************************************************)
(* C1: in each of the four commands the broadcast routine is called only   *)
(* with a message whose ValidateBasic returned no error; when ValidateBasic*)
(* fails the command returns that error and the broadcast routine is not   *)
(* called.                                                                 *)
(***************************************************************************)
C1_BroadcastOnlyValidated ==
    /\ \A i \in 1..Len(log) :
          log[i].op = "GenerateOrBroadcastMsgs"
             => \E j \in 1..(i - 1) : log[j] = Entry("ValidateBasic", TRUE)
    /\ sent.called
          => /\ Called("GenerateOrBroadcastMsgs")
             /\ sent.msgs = <<loc.msg>>
             /\ loc.msg # NoMsg
             /\ ~Failed("ValidateBasic")
    /\ Failed("ValidateBasic")
          => /\ Returned
             /\ err = Unwrapped("ValidateBasic", "invalid message")
             /\ ~sent.called
             /\ ~Called("GenerateOrBroadcastMsgs")

C1_Witness ==
    /\ cmd = "deposit" /\ Returned
    /\ Failed("ValidateBasic")
    /\ loc.msg.type = "KuMsgDeposit"

(***************************************************************************)
(* C2: submit-proposal given a proposal file together with any of the      *)
(* flags title, description, type or deposit returns an error, and makes   *)
(* neither the account query nor the broadcast call.                       *)
(***************************************************************************)
FlagConflict ==
    /\ cmd = "submit-proposal"
    /\ flagv.proposal # ""
    /\ flagv.title # "" \/ flagv.description # "" \/ flagv.type # "" \/ flagv.deposit # ""

C3_SingleQueryBeforeMessage ==
    /\ Count("QueryAccountAuth") <= 1
    /\ \A i \in 1..Len(log) :
          log[i].op = "NewMsg"
             => /\ \E j \in 1..(i - 1) : log[j] = Entry("QueryAccountAuth", TRUE)
                /\ Count("QueryAccountAuth") = 1
    /\ loc.msg # NoMsg => Called("NewMsg") /\ loc.msg.auth = [resolved |-> TRUE, of |-> loc.account.value]
    /\ Failed("QueryAccountAuth")
          => /\ Returned
             /\ err.step = "QueryAccountAuth"
             /\ loc.account # NoAccount
             /\ Contains(err.ctx, AccountIDString(loc.account))
             /\ err.ctx # AccountIDString(loc.account)
             /\ loc.msg = NoMsg
             /\ ~Called("NewMsg")
             /\ ~sent.called
             /\ ~Called("GenerateOrBroadcastMsgs")

C3_Witness ==
    /\ cmd = "vote" /\ Returned
    /\ Failed("QueryAccountAuth")
    /\ args[1] = <<"j">>

(***************************************************************************)
(* C4: deposit and vote given a proposal-id argument that is not a valid   *)
(* number fail with an error whose text contains the argument, before any  *)
(* account query, message construction or broadcast.                       *)
(***************************************************************************)
C4_BadProposalIdNamed ==
    (cmd \in {"deposit", "vote"} /\ ~IsUint64Decimal(args[2]) /\ pc # "ParseUint")
       => /\ Returned
          /\ err.step = "ParseUint"
          /\ err.ctx[1] = "proposal-id "
          /\ Contains(err.ctx, args[2])
          /\ Len(err.ctx) = Len(args[2]) + 2
          /\ log = <<Entry("ParseUint", FALSE)>>
          /\ loc.msg = NoMsg
          /\ ~sent.called

C4_Witness ==
    /\ cmd = "vote" /\ Returned
    /\ args[2] = <<"-", "7">>
    /\ err.step = "ParseUint"

(***************************************************************************)
(* C5: vote given an option that is not recognized after normalization     *)
(* returns an error without constructing a message, querying the account   *)
(* or broadcasting; a recognized option reaches the message as the         *)
(* canonical option it maps to.                                            *)
(***************************************************************************)
CanonicalOption ==
    [yes |-> "OptionYes", no |-> "OptionNo", no_with_veto |-> "OptionNoWithVeto",
     abstain |-> "OptionAbstain", Yes |-> "OptionYes", No |-> "OptionNo",
     NoWithVeto |-> "OptionNoWithVeto", Abstain |-> "OptionAbstain"]

C5_VoteOptionChecked ==
    (cmd = "vote" /\ Called("VoteOptionFromString"))
       => IF args[3] \in DOMAIN CanonicalOption
          THEN /\ ~Failed("VoteOptionFromString")
               /\ loc.option = CanonicalOption[args[3]]
               /\ loc.msg # NoMsg => loc.msg.option = CanonicalOption[args[3]]
          ELSE /\ Returned
               /\ err.step = "VoteOptionFromString"
               /\ err # NoError
               /\ loc.msg = NoMsg
               /\ ~Called("NewMsg")
               /\ ~Called("QueryAccountAuth")
               /\ ~Called("GenerateOrBroadcastMsgs")
               /\ ~sent.called

C5_Witness ==
    /\ cmd = "vote" /\ Returned
    /\ args[3] = "maybe"
    /\ err.step = "VoteOptionFromString"

Role ==
    [c \in Commands |->
        CASE c = "submit-proposal" -> "proposer"
          [] c = "deposit" -> "depositor"
          [] c = "vote" -> "voter"
          [] c = "unjail" -> "validator"]

WrappedSteps ==
    {"ParseCoins", "NewAccountIDFromStr", "QueryAccountAuth", "VoteOptionFromString",
     "ValidateBasic"}

IdentifiesCause(e) ==
    /\ e.ctx # <<>>
    /\ \/ e.ctx[1] = Role[cmd]
       \/ e.ctx[1] = "query account " /\ Contains(e.ctx, args[1])

C7_EveryErrorWrapped ==
    (Returned /\ err.step \in WrappedSteps) => IdentifiesCause(err)

(***************************************************************************)
(* C8: deposit and vote accept the proposal-id argument exactly when it is *)
(* a base-10 numeral of a value in 0 .. 2^64-1, and the message carries    *)
(* the value of the numeral.                                               *)
(***************************************************************************)
C8_ProposalIdUint64 ==
    (cmd \in {"deposit", "vote"} /\ Called("ParseUint"))
       => /\ log[1].op = "ParseUint"
          /\ log[1].ok <=> IsUint64Decimal(args[2])
          /\ log[1].ok => U64Decimal(loc.proposalID) = StripZeros(args[2])
          /\ loc.msg # NoMsg
                => /\ IsUint64Decimal(args[2])
                   /\ U64Decimal(loc.msg.proposalID) = StripZeros(args[2])

C8_Witness ==
    /\ cmd = "deposit"
    /\ args[2] = <<"0">> \o MaxUint64Decimal
    /\ loc.msg.type = "KuMsgDeposit"
    /\ loc.msg.proposalID = U64Max

(***************************************************************************)
(* C9: every invocation returns, after at most one account query and at    *)
(* most one broadcast call; a step that fails is the last step of the      *)
(* invocation and its error is the one returned.                           *)
(***************************************************************************)
NoRetry ==
    /\ Count("QueryAccountAuth") <= 1
    /\ Count("GenerateOrBroadcastMsgs") <= 1
    /\ \A i \in 1..Len(log) :
          ~log[i].ok => /\ i = Len(log)
                        /\ Returned
                        /\ err # NoError
                        /\ err.step = log[i].op
    /\ \A i, j \in 1..Len(log) : log[i].op = log[j].op => i = j

C9_TerminatesWithoutRetry ==
    /\ []NoRetry
    /\ (pc # "idle") ~> Returned

C9_Witness ==
    /\ cmd = "deposit" /\ Returned
    /\ Failed("QueryAccountAuth")
    /\ Len(log) = 4

(***************************************************************************)
(* C10: the account query is made only after every parsing step of the     *)
(* command has succeeded, so that after the query the only failure the     *)
(* command detects itself is that of ValidateBasic.                        *)
(***************************************************************************)
ParseSteps ==
    [c \in Commands |->
        CASE c = "submit-proposal" -> {"parseSubmitProposalFlags", "ParseCoins", "NewAccountIDFromStr"}
          [] c = "deposit" -> {"ParseUint", "ParseCoins", "NewAccountIDFromStr"}
          [] c = "vote" -> {"ParseUint", "VoteOptionFromString", "NewAccountIDFromStr"}
          [] c = "unjail" -> {"NewAccountIDFromStr"}]

C10_QueryAfterAllParsing ==
    \A i \in 1..Len(log) :
       log[i].op = "QueryAccountAuth"
          => /\ {log[j].op : j \in 1..(i - 1)} = ParseSteps[cmd]
             /\ \A j \in 1..(i - 1) : log[j].ok
             /\ \A k \in (i + 1)..Len(log) :
                   /\ log[k].op \notin ParseSteps[cmd]
                   /\ ~log[k].ok => log[k].op \in {"ValidateBasic", "GenerateOrBroadcastMsgs"}
             /\ (Returned /\ err # NoError)
                   => err.step \in {"QueryAccountAuth", "ValidateBasic", "GenerateOrBroadcastMsgs"}

C10_Witness ==
    /\ cmd = "submit-proposal" /\ Returned
    /\ Failed("ValidateBasic")
    /\ flagv.proposal # ""
    /\ Len(log) = 6

====
